---- MODULE Spec2Model ----
(***************************************************************************)
(* Model of fetch_calendar.py: the event splitter (process_event), the     *)
(* schedule builder (organize_events_by_days) and the part of main() that  *)
(* connects them.                                                          *)
(*                                                                         *)
(* Representation                                                          *)
(*   - a calendar date (datetime.date, or a naive midnight datetime) is    *)
(*     its day number, counted from 1970-01-01;                            *)
(*   - a date string "YYYY-MM-DD" is the tuple <<y, m, d>>;                *)
(*   - a time string "HH:MM" is the tuple <<h, m>>;                        *)
(*   - an aware datetime is [wall, off]: wall is the local wall clock in   *)
(*     seconds since 1970-01-01T00:00:00 and off the UTC offset in seconds *)
(*     of its fixed-offset tzinfo, so the instant is wall - off;           *)
(*   - a missing dict key / None is the empty tuple <<>>, a present value  *)
(*     v is <<v>>.                                                         *)
(***************************************************************************)
EXTENDS Integers, Sequences, FiniteSets, TLC

VARIABLES pc, zone, now, days_to_fetch, num_days, today, all_raw_events,
          idx, event, processed_list, processed_events, result, error

vars == <<pc, zone, now, days_to_fetch, num_days, today, all_raw_events,
          idx, event, processed_list, processed_events, result, error>>

(***************************************************************************)
(* Bounds of the model.                                                    *)
(***************************************************************************)
\* event dates range over BaseDay .. BaseDay + MaxSpan
MaxSpan == 3
\* number of raw events main() collects
MaxEvents == 2
\* number of fragments handed to a direct call of organize_events_by_days
MaxFrags == 3
\* largest day count of a window
MaxDays == 3

(***************************************************************************)
(* Calendar arithmetic of the datetime library.                            *)
(***************************************************************************)
\* date.fromisoformat / datetime.fromisoformat on "YYYY-MM-DD": the day
\* number of a civil date of the proleptic Gregorian calendar
days_from_civil(ymd) ==
  LET y   == IF ymd[2] <= 2 THEN ymd[1] - 1 ELSE ymd[1]
      era == y \div 400
      yoe == y - era * 400
      mp  == IF ymd[2] > 2 THEN ymd[2] - 3 ELSE ymd[2] + 9
      doy == (153 * mp + 2) \div 5 + ymd[3] - 1
      doe == yoe * 365 + yoe \div 4 - yoe \div 100 + doy
  IN  era * 146097 + doe - 719468

\* strftime('%Y-%m-%d'): the civil date of a day number
StrftimeDate(z) ==
  LET s   == z + 719468
      era == s \div 146097
      doe == s - era * 146097
      yoe == (doe - doe \div 1460 + doe \div 36524 - doe \div 146096) \div 365
      doy == doe - (365 * yoe + yoe \div 4 - yoe \div 100)
      mp  == (5 * doy + 2) \div 153
      d   == doy - (153 * mp + 2) \div 5 + 1
      m   == IF mp < 10 THEN mp + 3 ELSE mp - 9
      y   == yoe + era * 400
  IN  <<IF m <= 2 THEN y + 1 ELSE y, m, d>>

\* strftime('%A')
StrftimeWeekday(z) ==
  LET names == <<"Monday", "Tuesday", "Wednesday", "Thursday", "Friday",
                 "Saturday", "Sunday">>
  IN  names[((z + 3) % 7) + 1]

\* the first date of the model: 2024-10-31, so that the dates cross a month
\* boundary and, in America/New_York, the end of daylight saving time
BaseDay == days_from_civil(<<2024, 10, 31>>)

\* the local time zones the process may run in
Zones == {"UTC", "Asia/Kolkata", "America/New_York"}

\* UTC offset, in seconds, of the process's local zone at the instant utc
\* (seconds since the epoch); New York leaves daylight saving time on
\* 2024-11-03 at 06:00 UTC
LocalOffset(z, utc) ==
  CASE z = "UTC" -> 0
    [] z = "Asia/Kolkata" -> 19800
    [] z = "America/New_York" ->
         IF utc < days_from_civil(<<2024, 11, 3>>) * 86400 + 6 * 3600
         THEN 0 - 14400 ELSE 0 - 18000

\* datetime.now().astimezone().tzinfo: the fixed offset in force now
NowOffset == LocalOffset(zone, now)

\* x.date() of a datetime
DateOf(dt) == dt.wall \div 86400

\* seconds since local midnight of a datetime
TimeOfDay(dt) == dt.wall % 86400

(***************************************************************************)
(* Time helpers of the program.                                            *)
(***************************************************************************)
\* parse_datetime: parse the ISO string, then attach the local zone to a
\* naive value or convert an aware value to the local zone
parse_datetime(s) ==
  LET wall == days_from_civil(s.ymd) * 86400 + s.tod
  IN  IF s.off = <<>>
      THEN [wall |-> wall, off |-> NowOffset]
      ELSE LET utc == wall - s.off[1]
               off == LocalOffset(zone, utc)
           IN  [wall |-> utc + off, off |-> off]

\* format_time: strftime('%H:%M')
format_time(dt) ==
  <<TimeOfDay(dt) \div 3600, (TimeOfDay(dt) % 3600) \div 60>>

\* int(x / 60): truncation toward zero
IntDiv60(x) == IF x >= 0 THEN x \div 60 ELSE 0 - ((0 - x) \div 60)

calculate_duration_minutes_floor(start_dt, end_dt) ==
  ((end_dt.wall - end_dt.off) - (start_dt.wall - start_dt.off)) \div 60

\* calculate_duration_minutes: the difference of two aware datetimes is the
\* difference of their instants
calculate_duration_minutes(start_dt, end_dt) ==
  IntDiv60((end_dt.wall - end_dt.off) - (start_dt.wall - start_dt.off))

(***************************************************************************)
(* Raw events of the provider.                                             *)
(***************************************************************************)
\* the date strings of the model
DateStrs == {StrftimeDate(BaseDay + i) : i \in 0..MaxSpan}

\* times of day, in seconds: 00:00:00, 01:00:00, 01:30:00, 09:00:00,
\* 17:00:00, 23:00:00, 23:59:00, 23:59:30
TimesOfDay == {0, 3600, 5400, 32400, 61200, 82800, 86340, 86370}

\* the offset suffix of a dateTime string: none, Z, -04:00, -05:00
OffsetStrs == {<<>>, <<0>>, <<0 - 14400>>, <<0 - 18000>>}

\* the 'dateTime' value of an event side: the key is absent, the value is
\* the empty string, or it is an ISO datetime
DateTimeStrs ==
  [k : {"iso"}, ymd : DateStrs, tod : TimesOfDay, off : OffsetStrs]

NoDateTime == [k |-> "absent", ymd |-> <<>>, tod |-> 0, off |-> <<>>]

EmptyDateTime == [k |-> "empty", ymd |-> <<>>, tod |-> 0, off |-> <<>>]

\* event['start'] / event['end']: date only, dateTime only, neither, an
\* empty dateTime, or a date next to an empty dateTime
Sides ==
  [date : {<<>>}, dateTime : DateTimeStrs \cup {NoDateTime, EmptyDateTime}]
  \cup [date : {<<d>> : d \in DateStrs}, dateTime : {NoDateTime, EmptyDateTime}]

\* summary and location of an event
Decors ==
  { [summary |-> <<>>, location |-> <<>>],
    [summary |-> <<"standup">>, location |-> <<"">>],
    [summary |-> <<"review">>, location |-> <<"room">>] }

RawEvents ==
  { [start |-> s, end |-> e, summary |-> c.summary, location |-> c.location] :
      s \in Sides, e \in Sides, c \in Decors }

NoEvent ==
  [start |-> [date |-> <<>>, dateTime |-> NoDateTime],
   end |-> [date |-> <<>>, dateTime |-> NoDateTime],
   summary |-> <<>>, location |-> <<>>]

(***************************************************************************)
(* process_event                                                           *)
(***************************************************************************)
\* event.get('summary', '')
Title(ev) == IF ev.summary = <<>> THEN "" ELSE ev.summary[1]

\* event.get('location') or None
Location(ev) ==
  IF ev.location = <<>> \/ ev.location = <<"">> THEN <<>> ELSE ev.location

\* is_all_day = 'date' in start and 'date' in end
IsAllDay(ev) == ev.start.date # <<>> /\ ev.end.date # <<>>

AllDayEnd_exclusive(end_day) == end_day

\* end_dt = end_dt - timedelta(days=1)
AllDayEnd(end_day) == end_day - 1

\* one entry of the all-day loop
AllDayEntry(ev, current_date) ==
  [date |-> StrftimeDate(current_date),
   start_time |-> <<0, 0>>,
   end_time |-> <<23, 59>>,
   duration_minutes |-> 1440,
   title |-> Title(ev),
   location |-> Location(ev),
   is_all_day |-> TRUE]

\* while current_date <= end_dt of the all-day branch
RECURSIVE AllDayLoop(_, _, _, _)
AllDayLoop(ev, current_date, end_dt, events_list) ==
  IF current_date <= end_dt
  THEN AllDayLoop(ev, current_date + 1, end_dt,
                  Append(events_list, AllDayEntry(ev, current_date)))
  ELSE events_list

\* not start_dt_str or not end_dt_str
MissingInstant(ev) ==
  ev.start.dateTime.k # "iso" \/ ev.end.dateTime.k # "iso"

EndOfDay_midnight(current_date, start_dt) ==
  [wall |-> (current_date + 1) * 86400, off |-> start_dt.off]

\* datetime.combine(current_date, time(23, 59, 0)) with start_dt's tzinfo
EndOfDay(current_date, start_dt) ==
  [wall |-> current_date * 86400 + 23 * 3600 + 59 * 60, off |-> start_dt.off]

\* datetime.combine(current_date, time(0, 0, 0)) with end_dt's tzinfo
StartOfDay(current_date, end_dt) ==
  [wall |-> current_date * 86400, off |-> end_dt.off]

TimedEntry_interiorClipped(ev, current_date, start_dt, end_dt) ==
  LET common == [date |-> StrftimeDate(current_date), title |-> Title(ev),
                 location |-> Location(ev), is_all_day |-> FALSE]
  IN  IF current_date = DateOf(start_dt) /\ current_date = DateOf(end_dt)
      THEN common @@ [start_time |-> format_time(start_dt),
                      end_time |-> format_time(end_dt),
                      duration_minutes |->
                        calculate_duration_minutes(start_dt, end_dt)]
      ELSE IF current_date = DateOf(start_dt)
      THEN common @@ [start_time |-> format_time(start_dt),
                      end_time |-> <<23, 59>>,
                      duration_minutes |->
                        calculate_duration_minutes(
                          start_dt, EndOfDay(current_date, start_dt))]
      ELSE IF current_date = DateOf(end_dt)
      THEN common @@ [start_time |-> <<0, 0>>,
                      end_time |-> format_time(end_dt),
                      duration_minutes |->
                        calculate_duration_minutes(
                          StartOfDay(current_date, end_dt), end_dt)]
      ELSE common @@ [start_time |-> <<0, 0>>,
                      end_time |-> <<23, 59>>,
                      duration_minutes |-> 1439]

\* one entry of the timed loop: the four branches on current_date
TimedEntry(ev, current_date, start_dt, end_dt) ==
  LET common == [date |-> StrftimeDate(current_date), title |-> Title(ev),
                 location |-> Location(ev), is_all_day |-> FALSE]
  IN  IF current_date = DateOf(start_dt) /\ current_date = DateOf(end_dt)
      THEN common @@ [start_time |-> format_time(start_dt),
                      end_time |-> format_time(end_dt),
                      duration_minutes |->
                        calculate_duration_minutes(start_dt, end_dt)]
      ELSE IF current_date = DateOf(start_dt)
      THEN common @@ [start_time |-> format_time(start_dt),
                      end_time |-> <<23, 59>>,
                      duration_minutes |->
                        calculate_duration_minutes(
                          start_dt, EndOfDay(current_date, start_dt))]
      ELSE IF current_date = DateOf(end_dt)
      THEN common @@ [start_time |-> <<0, 0>>,
                      end_time |-> format_time(end_dt),
                      duration_minutes |->
                        calculate_duration_minutes(
                          StartOfDay(current_date, end_dt), end_dt)]
      ELSE common @@ [start_time |-> <<0, 0>>,
                      end_time |-> <<23, 59>>,
                      duration_minutes |-> 1440]

RECURSIVE TimedLoop_exclusive(_, _, _, _, _)
TimedLoop_exclusive(ev, current_date, start_dt, end_dt, events_list) ==
  IF current_date < DateOf(end_dt)
  THEN TimedLoop_exclusive(ev, current_date + 1, start_dt, end_dt,
         Append(events_list, TimedEntry(ev, current_date, start_dt, end_dt)))
  ELSE events_list

\* while current_date <= end_date of the timed branch
RECURSIVE TimedLoop(_, _, _, _, _)
TimedLoop(ev, current_date, start_dt, end_dt, events_list) ==
  IF current_date <= DateOf(end_dt)
  THEN TimedLoop(ev, current_date + 1, start_dt, end_dt,
         Append(events_list, TimedEntry(ev, current_date, start_dt, end_dt)))
  ELSE events_list

process_event_dateFallback(ev) ==
  IF IsAllDay(ev)
  THEN AllDayLoop(ev, days_from_civil(ev.start.date[1]),
                  AllDayEnd(days_from_civil(ev.end.date[1])), <<>>)
  ELSE IF MissingInstant(ev)
  THEN (IF ev.start.date # <<>>
        THEN <<AllDayEntry(ev, days_from_civil(ev.start.date[1]))>>
        ELSE <<>>)
  ELSE LET start_dt == parse_datetime(ev.start.dateTime)
           end_dt   == parse_datetime(ev.end.dateTime)
       IN  TimedLoop(ev, DateOf(start_dt), start_dt, end_dt, <<>>)

\* process_event: the fragments of one raw event
process_event(ev) ==
  IF IsAllDay(ev)
  THEN AllDayLoop(ev, days_from_civil(ev.start.date[1]),
                  AllDayEnd(days_from_civil(ev.end.date[1])), <<>>)
  ELSE IF MissingInstant(ev)
  THEN <<>>
  ELSE LET start_dt == parse_datetime(ev.start.dateTime)
           end_dt   == parse_datetime(ev.end.dateTime)
       IN  TimedLoop(ev, DateOf(start_dt), start_dt, end_dt, <<>>)

(***************************************************************************)
(* organize_events_by_days                                                 *)
(***************************************************************************)
\* the dict appended to day_events: the fragment without its date
DayEvent(ev) ==
  [title |-> ev.title,
   start_time |-> ev.start_time,
   end_time |-> ev.end_time,
   duration_minutes |-> ev.duration_minutes,
   location |-> ev.location,
   is_all_day |-> ev.is_all_day]

RECURSIVE DayEvents_prepend(_, _, _, _)
DayEvents_prepend(events, date_str, i, day_events) ==
  IF i > Len(events)
  THEN day_events
  ELSE DayEvents_prepend(events, date_str, i + 1,
         IF events[i].date = date_str
         THEN <<DayEvent(events[i])>> \o day_events
         ELSE day_events)

\* for event in events: if event.get('date') == date_str: day_events.append
RECURSIVE DayEvents(_, _, _, _)
DayEvents(events, date_str, i, day_events) ==
  IF i > Len(events)
  THEN day_events
  ELSE DayEvents(events, date_str, i + 1,
         IF events[i].date = date_str
         THEN Append(day_events, DayEvent(events[i]))
         ELSE day_events)

\* one pass of the loop over range(num_days)
DaySlot(events, week_start, day_offset) ==
  LET current_date == week_start + day_offset
      date_str     == StrftimeDate(current_date)
  IN  [date |-> date_str,
       weekday |-> StrftimeWeekday(current_date),
       events |-> DayEvents(events, date_str, 1, <<>>)]

WeekEnd_exclusive(week_start, n) == week_start + n

\* week_end = week_start + timedelta(days=num_days - 1)
WeekEnd(week_start, n) == week_start + (n - 1)

\* organize_events_by_days: range(num_days) is empty when num_days < 1
organize_events_by_days(events, start_date, n) ==
  [week_start |-> StrftimeDate(start_date),
   week_end |-> StrftimeDate(WeekEnd(start_date, n)),
   days |-> [i \in 1..n |-> DaySlot(events, start_date, i - 1)]]

(***************************************************************************)
(* The environment of a run.                                               *)
(***************************************************************************)
\* the instants at which the process may run: 2024-10-31 12:00 UTC and
\* 2024-11-03 12:00 UTC
Nows == {BaseDay * 86400 + 43200, (BaseDay + 3) * 86400 + 43200}

\* os.getenv('DAYS_TO_FETCH'): unset, empty, or the text of an integer
EnvValues ==
  {[k |-> "unset", v |-> 0], [k |-> "empty", v |-> 0]}
  \cup [k : {"int"}, v : (0 - 1)..MaxDays]

\* datetime.now().replace(hour=0, minute=0, second=0, microsecond=0)
Today == (now + LocalOffset(zone, now)) \div 86400

IsoSide(i, tod, off) ==
  [date |-> <<>>,
   dateTime |-> [k |-> "iso", ymd |-> StrftimeDate(BaseDay + i),
                 tod |-> tod, off |-> off]]

DateSide(i) == [date |-> <<StrftimeDate(BaseDay + i)>>, dateTime |-> NoDateTime]

NoSide == [date |-> <<>>, dateTime |-> NoDateTime]

EmptySide == [date |-> <<>>, dateTime |-> EmptyDateTime]

\* the events the provider returns to main(): all-day, timed on one day,
\* timed over several days, and timed events that lack an instant
ProviderEvents ==
  { [start |-> DateSide(0), end |-> DateSide(2),
     summary |-> <<"offsite">>, location |-> <<"room">>],
    [start |-> IsoSide(1, 32400, <<0>>), end |-> IsoSide(1, 61200, <<0>>),
     summary |-> <<"standup">>, location |-> <<"">>],
    [start |-> IsoSide(0, 82800, <<>>), end |-> IsoSide(2, 3600, <<>>),
     summary |-> <<"release">>, location |-> <<>>],
    [start |-> NoSide, end |-> IsoSide(1, 61200, <<0>>),
     summary |-> <<"no start">>, location |-> <<>>],
    [start |-> IsoSide(1, 32400, <<0>>), end |-> EmptySide,
     summary |-> <<"empty end">>, location |-> <<>>],
    [start |-> DateSide(1), end |-> IsoSide(1, 61200, <<0>>),
     summary |-> <<"mixed">>, location |-> <<>>],
    [start |-> NoSide, end |-> NoSide,
     summary |-> <<>>, location |-> <<>>] }

\* the dates a fragment handed to organize_events_by_days may carry: the
\* dates around the window, None, and a string that is not a calendar date
FragmentDates ==
  {StrftimeDate(BaseDay + i) : i \in 0..MaxDays} \cup {<<>>, <<2024, 11, 31>>}

Fragments ==
  { [date |-> d, start_time |-> <<9, 0>>, end_time |-> <<10, 30>>,
     duration_minutes |-> 90, title |-> t, location |-> <<>>,
     is_all_day |-> FALSE] : d \in FragmentDates, t \in {"a", "b"} }

FragmentLists == UNION {[1..n -> Fragments] : n \in 0..MaxFrags}

(***************************************************************************)
(* Specification of main(): read the day count, collect the raw events,    *)
(* split each of them, build the window.                                   *)
(***************************************************************************)
Init ==
  /\ pc = "main"
  /\ zone \in Zones
  /\ now \in Nows
  /\ days_to_fetch \in EnvValues
  /\ num_days = 0
  /\ today = 0
  /\ all_raw_events = <<>>
  /\ idx = 1
  /\ event = NoEvent
  /\ processed_list = <<>>
  /\ processed_events = <<>>
  /\ result = <<>>
  /\ error = "none"

\* days_to_fetch = os.getenv(...); if not days_to_fetch: raise ValueError
ReadEnvMissing ==
  /\ pc = "main"
  /\ days_to_fetch.k # "int"
  /\ pc' = "raised"
  /\ error' = "ValueError"
  /\ UNCHANGED <<zone, now, days_to_fetch, num_days, today, all_raw_events,
                 idx, event, processed_list, processed_events, result>>

\* num_days = int(days_to_fetch); today = datetime.now().replace(...)
ReadEnv ==
  /\ pc = "main"
  /\ days_to_fetch.k = "int"
  /\ num_days' = days_to_fetch.v
  /\ today' = Today
  /\ pc' = "fetch"
  /\ UNCHANGED <<zone, now, days_to_fetch, all_raw_events, idx, event,
                 processed_list, processed_events, result, error>>

\* one pass of the loop over the calendars: all_raw_events.extend(events)
FetchCalendar ==
  /\ pc = "fetch"
  /\ Len(all_raw_events) < MaxEvents
  /\ \E ev \in ProviderEvents :
       all_raw_events' = all_raw_events \o <<ev>>
  /\ UNCHANGED <<pc, zone, now, days_to_fetch, num_days, today, idx, event,
                 processed_list, processed_events, result, error>>

\* the loop over the calendars ends
FetchDone ==
  /\ pc = "fetch"
  /\ pc' = "process"
  /\ UNCHANGED <<zone, now, days_to_fetch, num_days, today, all_raw_events,
                 idx, event, processed_list, processed_events, result, error>>

\* if processed_list: processed_events.extend(processed_list)
Extend(events, list) == IF list # <<>> THEN events \o list ELSE events

\* one pass of the loop over all_raw_events
ProcessNext ==
  /\ pc = "process"
  /\ idx <= Len(all_raw_events)
  /\ event' = all_raw_events[idx]
  /\ processed_list' = process_event(all_raw_events[idx])
  /\ processed_events' =
       Extend(processed_events, process_event(all_raw_events[idx]))
  /\ idx' = idx + 1
  /\ UNCHANGED <<pc, zone, now, days_to_fetch, num_days, today,
                 all_raw_events, result, error>>

\* result = organize_events_by_days(processed_events, today, num_days)
Organize ==
  /\ pc = "process"
  /\ idx > Len(all_raw_events)
  /\ result' = <<organize_events_by_days(processed_events, today, num_days)>>
  /\ pc' = "done"
  /\ UNCHANGED <<zone, now, days_to_fetch, num_days, today, all_raw_events,
                 idx, event, processed_list, processed_events, error>>

Next ==
  \/ ReadEnvMissing
  \/ ReadEnv
  \/ FetchCalendar
  \/ FetchDone
  \/ ProcessNext
  \/ Organize

Spec == Init /\ [][Next]_vars

(***************************************************************************)
(* Specification of process_event alone: any raw event, any local zone.    *)
(***************************************************************************)
InitSplit ==
  /\ pc = "split"
  /\ zone \in Zones
  /\ now \in Nows
  /\ event \in RawEvents
  /\ days_to_fetch = [k |-> "unset", v |-> 0]
  /\ num_days = 0
  /\ today = 0
  /\ all_raw_events = <<>>
  /\ idx = 1
  /\ processed_list = <<>>
  /\ processed_events = <<>>
  /\ result = <<>>
  /\ error = "none"

\* processed_list = process_event(event)
SplitEvent ==
  /\ pc = "split"
  /\ processed_list' = process_event(event)
  /\ pc' = "split_returned"
  /\ UNCHANGED <<zone, now, days_to_fetch, num_days, today, all_raw_events,
                 idx, event, processed_events, result, error>>

NextSplit == SplitEvent

SpecSplit == InitSplit /\ [][NextSplit]_vars

(***************************************************************************)
(* Specification of organize_events_by_days alone: any fragment list, any  *)
(* window.                                                                 *)
(***************************************************************************)
InitBuild ==
  /\ pc = "build"
  /\ zone = "UTC"
  /\ now \in Nows
  /\ processed_events \in FragmentLists
  /\ today \in {BaseDay, BaseDay + 1}
  /\ num_days \in (0 - 1)..MaxDays
  /\ days_to_fetch = [k |-> "int", v |-> num_days]
  /\ all_raw_events = <<>>
  /\ idx = 1
  /\ event = NoEvent
  /\ processed_list = <<>>
  /\ result = <<>>
  /\ error = "none"

\* result = organize_events_by_days(events, start_date, num_days): the
\* function has no raise statement and validates none of its arguments
BuildWindow ==
  /\ pc = "build"
  /\ result' = <<organize_events_by_days(processed_events, today, num_days)>>
  /\ pc' = "build_returned"
  /\ UNCHANGED <<zone, now, days_to_fetch, num_days, today, all_raw_events,
                 idx, event, processed_list, processed_events, error>>

NextBuild == BuildWindow

SpecBuild == InitBuild /\ [][NextBuild]_vars

(***************************************************************************)
(* Vocabulary of the properties.                                           *)
(***************************************************************************)
DaysInMonth(y, m) ==
  IF m = 2
  THEN (IF (y % 4 = 0 /\ y % 100 # 0) \/ y % 400 = 0 THEN 29 ELSE 28)
  ELSE IF m \in {4, 6, 9, 11} THEN 30 ELSE 31

\* ymd is the text of a date of the calendar
ValidDate(ymd) ==
  /\ Len(ymd) = 3
  /\ ymd[2] \in 1..12
  /\ ymd[3] \in 1..DaysInMonth(ymd[1], ymd[2])

\* "HH:MM" strings compare as their (hour, minute) pairs
TimeLeq(a, b) == a[1] < b[1] \/ (a[1] = b[1] /\ a[2] <= b[2])

ValidTime(a) == a[1] \in 0..23 /\ a[2] \in 0..59

RECURSIVE SumDurations(_)
SumDurations(list) ==
  IF list = <<>> THEN 0
  ELSE list[1].duration_minutes + SumDurations(Tail(list))

\* process_event has returned for the event of the state
SplitReturned == pc = "split_returned"

\* the event is timed and carries both instants
Timed(ev) == ~IsAllDay(ev) /\ ~MissingInstant(ev)

\* local start and end of a timed event
StartDt == parse_datetime(event.start.dateTime)

EndDt == parse_datetime(event.end.dateTime)

\* the k-th smallest element of a set of numbers
Kth(I, k) == CHOOSE j \in I : Cardinality({x \in I : x < j}) = k - 1

\* organize_events_by_days has returned
BuildReturned == pc = "build_returned"

\* the positions of the fragments that carry the date string d
Carrying(d) == {j \in 1..Len(processed_events) : processed_events[j].date = d}

\* the fragment's date is a calendar date inside the window
InWindow(f) ==
  /\ ValidDate(f.date)
  /\ days_from_civil(f.date) \in today..(today + num_days - 1)

(***************************************************************************)
(* C1: for a timed event whose local start date d0 is not after its local  *)
(* end date d1, process_event returns exactly one fragment per calendar    *)
(* date of d0..d1, in ascending order with no date repeated or skipped,    *)
(* and every fragment of a date strictly between d0 and d1 runs 00:00 to   *)
(* 23:59 with duration_minutes 1440.                                       *)
(***************************************************************************)
C1_OneFragmentPerDate ==
  (SplitReturned /\ Timed(event) /\ DateOf(StartDt) <= DateOf(EndDt)) =>
    LET d0 == DateOf(StartDt)
        d1 == DateOf(EndDt)
    IN  /\ Len(processed_list) = d1 - d0 + 1
        /\ \A i \in 1..Len(processed_list) :
             /\ ValidDate(processed_list[i].date)
             /\ days_from_civil(processed_list[i].date) = d0 + i - 1
             /\ (d0 < d0 + i - 1 /\ d0 + i - 1 < d1) =>
                  /\ processed_list[i].start_time = <<0, 0>>
                  /\ processed_list[i].end_time = <<23, 59>>
                  /\ processed_list[i].duration_minutes = 1440

C1_Witness ==
  /\ SplitReturned
  /\ Timed(event)
  /\ DateOf(EndDt) - DateOf(StartDt) = 2
  /\ Len(processed_list) = 3
  /\ processed_list[2].duration_minutes = 1440

(***************************************************************************)
(* C2: for an all-day event with start date s and exclusive end date e,    *)
(* process_event returns one fragment for each date from s through e - 1,  *)
(* in ascending order, which are e - s fragments, and every one of them    *)
(* runs 00:00 to 23:59 with duration_minutes 1440 and is_all_day true.     *)
(***************************************************************************)
C2_AllDayFragments ==
  (SplitReturned /\ IsAllDay(event)) =>
    LET s == days_from_civil(event.start.date[1])
        e == days_from_civil(event.end.date[1])
    IN  /\ Len(processed_list) = Cardinality(s..(e - 1))
        /\ e >= s => Len(processed_list) = e - s
        /\ \A i \in 1..Len(processed_list) :
             /\ ValidDate(processed_list[i].date)
             /\ days_from_civil(processed_list[i].date) = s + i - 1
             /\ processed_list[i].start_time = <<0, 0>>
             /\ processed_list[i].end_time = <<23, 59>>
             /\ processed_list[i].duration_minutes = 1440
             /\ processed_list[i].is_all_day = TRUE

C2_Witness ==
  /\ SplitReturned
  /\ IsAllDay(event)
  /\ event.start.date[1] = <<2024, 10, 31>>
  /\ event.end.date[1] = <<2024, 11, 2>>
  /\ Len(processed_list) = 2
  /\ processed_list[2].date = <<2024, 11, 1>>

(***************************************************************************)
(* C6 as stated: for a timed event spanning several local dates, the sum   *)
(* of duration_minutes over the fragments equals the number of wall-clock  *)
(* minutes between the start and the end of the event.                     *)
(***************************************************************************)
C6_SumIsWallClock ==
  (SplitReturned /\ Timed(event) /\ DateOf(StartDt) < DateOf(EndDt)) =>
    SumDurations(processed_list) = (EndDt.wall - StartDt.wall) \div 60

(***************************************************************************)
(* C6 amended: for a timed event spanning several local dates whose local  *)
(* start and end times fall on whole minutes, the sum of duration_minutes  *)
(* over the fragments is one less than the number of minutes between the   *)
(* local wall-clock start and end: the minute from 23:59 to 24:00 of the   *)
(* start date is not counted.                                              *)
(***************************************************************************)
C6_SumIsWallClockLessOne ==
  (/\ SplitReturned /\ Timed(event) /\ DateOf(StartDt) < DateOf(EndDt)
   /\ StartDt.wall % 60 = 0 /\ EndDt.wall % 60 = 0) =>
    SumDurations(processed_list) = (EndDt.wall - StartDt.wall) \div 60 - 1

C6_Witness ==
  /\ SplitReturned
  /\ Timed(event)
  /\ DateOf(EndDt) - DateOf(StartDt) = 2
  /\ TimeOfDay(StartDt) = 32400
  /\ TimeOfDay(EndDt) = 61200
  /\ Len(processed_list) = 3
  /\ SumDurations(processed_list) = 899 + 1440 + 1020

(***************************************************************************)
(* C7: for a timed event whose local start date is earlier than its local  *)
(* end date, the fragment of the start date runs from the local start time *)
(* to 23:59 and lasts the whole minutes from the start to 23:59:00 of that *)
(* date, the fragment of the end date runs from 00:00 to the local end     *)
(* time and lasts the whole minutes from 00:00:00 of that date to the end, *)
(* and both have is_all_day false; an event from 23:00 to 01:00 of the     *)
(* next day yields exactly two fragments, of 59 and 60 minutes.            *)
(***************************************************************************)
C7_BoundaryFragments ==
  (SplitReturned /\ Timed(event) /\ DateOf(StartDt) < DateOf(EndDt)) =>
    LET S     == StartDt.wall - DateOf(StartDt) * 86400
        E     == EndDt.wall - DateOf(EndDt) * 86400
        first == processed_list[1]
        last  == processed_list[Len(processed_list)]
    IN  /\ Len(processed_list) >= 2
        /\ first.date = StrftimeDate(DateOf(StartDt))
        /\ first.start_time = <<S \div 3600, (S \div 60) % 60>>
        /\ first.end_time = <<23, 59>>
        /\ first.duration_minutes =
             (IF S <= 86340 THEN (86340 - S) \div 60 ELSE 0)
        /\ first.is_all_day = FALSE
        /\ last.date = StrftimeDate(DateOf(EndDt))
        /\ last.start_time = <<0, 0>>
        /\ last.end_time = <<E \div 3600, (E \div 60) % 60>>
        /\ last.duration_minutes = E \div 60
        /\ last.is_all_day = FALSE
        /\ (S = 82800 /\ E = 3600 /\ DateOf(EndDt) = DateOf(StartDt) + 1) =>
             /\ Len(processed_list) = 2
             /\ first.start_time = <<23, 0>>
             /\ first.duration_minutes = 59
             /\ last.end_time = <<1, 0>>
             /\ last.duration_minutes = 60

C7_Witness ==
  /\ SplitReturned
  /\ Timed(event)
  /\ TimeOfDay(StartDt) = 82800
  /\ TimeOfDay(EndDt) = 3600
  /\ DateOf(EndDt) = DateOf(StartDt) + 1
  /\ Len(processed_list) = 2
  /\ processed_list[1].duration_minutes = 59
  /\ processed_list[2].duration_minutes = 60

(***************************************************************************)
(* C10 as stated: for a timed event whose end instant is not before its    *)
(* start instant, every fragment has 0 <= duration_minutes <= 1440 and     *)
(* start_time <= end_time.                                                 *)
(***************************************************************************)
C10_FragmentsWithinDay ==
  (/\ SplitReturned /\ Timed(event)
   /\ StartDt.wall - StartDt.off <= EndDt.wall - EndDt.off) =>
    \A i \in 1..Len(processed_list) :
      /\ processed_list[i].duration_minutes \in 0..1440
      /\ ValidTime(processed_list[i].start_time)
      /\ ValidTime(processed_list[i].end_time)
      /\ TimeLeq(processed_list[i].start_time, processed_list[i].end_time)

(***************************************************************************)
(* C10 amended: for a timed event whose end instant is not before its      *)
(* start instant and whose two instants have the same local UTC offset,    *)
(* every fragment has 0 <= duration_minutes <= 1440 and start_time <=      *)
(* end_time, also when the start falls in the last minute of its day,      *)
(* where the duration of the start date is 0.                              *)
(***************************************************************************)
C10_FragmentsWithinDaySameOffset ==
  (/\ SplitReturned /\ Timed(event)
   /\ StartDt.wall - StartDt.off <= EndDt.wall - EndDt.off
   /\ StartDt.off = EndDt.off) =>
    /\ \A i \in 1..Len(processed_list) :
         /\ processed_list[i].duration_minutes \in 0..1440
         /\ ValidTime(processed_list[i].start_time)
         /\ ValidTime(processed_list[i].end_time)
         /\ TimeLeq(processed_list[i].start_time, processed_list[i].end_time)
    /\ (TimeOfDay(StartDt) > 86340 /\ DateOf(StartDt) < DateOf(EndDt)) =>
         processed_list[1].duration_minutes = 0

C10_Witness ==
  /\ SplitReturned
  /\ Timed(event)
  /\ StartDt.off = EndDt.off
  /\ TimeOfDay(StartDt) = 86370
  /\ DateOf(StartDt) < DateOf(EndDt)
  /\ processed_list[1].start_time = <<23, 59>>
  /\ processed_list[1].end_time = <<23, 59>>
  /\ processed_list[1].duration_minutes = 0

(***************************************************************************)
(* C3: for any fragment list, any window start and any num_days >= 1,      *)
(* organize_events_by_days returns exactly num_days day slots, slot i      *)
(* (0-based) dated window start + i days, and a window end equal to window *)
(* start + num_days - 1 and to the date of the last slot; a day without a  *)
(* matching fragment is present with an empty events list.                 *)
(***************************************************************************)
C3_WindowShape ==
  (BuildReturned /\ num_days >= 1) =>
    LET w == result[1]
    IN  /\ Len(w.days) = num_days
        /\ w.week_start = w.days[1].date
        /\ days_from_civil(w.week_start) = today
        /\ ValidDate(w.week_end)
        /\ days_from_civil(w.week_end) = today + num_days - 1
        /\ w.week_end = w.days[num_days].date
        /\ \A i \in 1..num_days :
             /\ ValidDate(w.days[i].date)
             /\ days_from_civil(w.days[i].date) = today + (i - 1)
             /\ w.days[i].weekday =
                  <<"Thursday", "Friday", "Saturday", "Sunday", "Monday",
                    "Tuesday", "Wednesday">>[((today + i - 1 - BaseDay) % 7) + 1]
             /\ Carrying(w.days[i].date) = {} => w.days[i].events = <<>>

C3_Witness ==
  /\ BuildReturned
  /\ num_days = 2
  /\ today = BaseDay
  /\ Len(processed_events) = 2
  /\ Len(result[1].days) = 2
  /\ result[1].days[1].date = <<2024, 10, 31>>
  /\ result[1].days[1].events = <<>>
  /\ result[1].days[2].date = <<2024, 11, 1>>
  /\ result[1].days[2].events # <<>>
  /\ result[1].week_end = <<2024, 11, 1>>

(***************************************************************************)
(* C4: in the window returned by organize_events_by_days the events of     *)
(* each day slot are the fragments whose date equals the slot's date, in   *)
(* the order in which they were supplied; every fragment whose date lies   *)
(* in the window appears in exactly one slot exactly once, and a fragment  *)
(* whose date is outside the window appears in no slot.                    *)
(***************************************************************************)
C4_StableFilter ==
  BuildReturned =>
    LET w == result[1]
    IN  /\ \A i \in 1..Len(w.days) :
             LET I == Carrying(w.days[i].date)
             IN  /\ Len(w.days[i].events) = Cardinality(I)
                 /\ \A k \in 1..Len(w.days[i].events) :
                      w.days[i].events[k] = DayEvent(processed_events[Kth(I, k)])
        /\ \A j \in 1..Len(processed_events) :
             Cardinality({i \in 1..Len(w.days) :
                            w.days[i].date = processed_events[j].date})
               = IF InWindow(processed_events[j]) THEN 1 ELSE 0

C4_Witness ==
  /\ BuildReturned
  /\ num_days = 2
  /\ today = BaseDay + 1
  /\ Len(processed_events) = 3
  /\ processed_events[1].date = <<2024, 11, 1>>
  /\ processed_events[1].title = "b"
  /\ processed_events[2].date = <<2024, 10, 31>>
  /\ processed_events[3].date = <<2024, 11, 1>>
  /\ processed_events[3].title = "a"
  /\ Len(result[1].days[1].events) = 2
  /\ result[1].days[1].events[1].title = "b"
  /\ result[1].days[1].events[2].title = "a"
  /\ result[1].days[2].events = <<>>

(***************************************************************************)
(* C5: a call of organize_events_by_days with num_days < 1 is rejected     *)
(* with an error and returns no window structure.                          *)
(***************************************************************************)
C5_InvalidWindowRejected ==
  (days_to_fetch.k = "int" /\ days_to_fetch.v < 1) =>
    /\ result = <<>>
    /\ pc = "done" => error # "none"

(***************************************************************************)
(* C8: when a fragment whose date is missing or is not a calendar date     *)
(* reaches organize_events_by_days (called with a valid day count), the    *)
(* call fails with an error instead of returning a window without that     *)
(* fragment.                                                               *)
(***************************************************************************)
C8_MalformedFragmentFails ==
  (/\ BuildReturned
   /\ num_days >= 1
   /\ \E j \in 1..Len(processed_events) : ~ValidDate(processed_events[j].date))
  => (result = <<>> /\ error # "none")

(***************************************************************************)
(* C9: for an event that is not all-day and lacks a start or an end        *)
(* dateTime (missing or empty), process_event returns an empty list and    *)
(* raises no error; the event contributes nothing to any day slot and the  *)
(* remaining events are still processed.                                   *)
(***************************************************************************)
C9_MissingInstantSkipped ==
  LET malformed(ev) ==
        /\ ~(ev.start.date # <<>> /\ ev.end.date # <<>>)
        /\ \/ ev.start.dateTime.k \in {"absent", "empty"}
           \/ ev.end.dateTime.k \in {"absent", "empty"}
      expected(ev) ==
        CASE ev.summary = <<"offsite">> -> 2
          [] ev.summary = <<"standup">> -> 1
          [] ev.summary = <<"release">> -> 3
          [] OTHER -> 0
      processed == {j \in 1..(idx - 1) : ~malformed(all_raw_events[j])}
      RECURSIVE total(_)
      total(J) == IF J = {} THEN 0
                  ELSE LET j == CHOOSE x \in J : TRUE
                       IN  expected(all_raw_events[j]) + total(J \ {j})
  IN  /\ (pc \in {"process", "done"} /\ idx > 1 /\ malformed(event)) =>
           /\ processed_list = <<>>
           /\ error = "none"
      /\ pc \in {"process", "done"} =>
           /\ \A j \in 1..Len(all_raw_events) :
                malformed(all_raw_events[j]) =>
                  \A f \in 1..Len(processed_events) :
                    processed_events[f].title # Title(all_raw_events[j])
           /\ Len(processed_events) = total(processed)
      /\ pc = "done" =>
           /\ idx = Len(all_raw_events) + 1
           /\ error = "none"
           /\ \A j \in 1..Len(all_raw_events) :
                malformed(all_raw_events[j]) =>
                  \A i \in 1..Len(result[1].days) :
                    \A k \in 1..Len(result[1].days[i].events) :
                      result[1].days[i].events[k].title
                        # Title(all_raw_events[j])

C9_Witness ==
  /\ pc = "done"
  /\ Len(all_raw_events) = 2
  /\ all_raw_events[1].summary = <<"empty end">>
  /\ all_raw_events[2].summary = <<"offsite">>
  /\ Len(processed_events) = 2
  /\ num_days = 2
  /\ \E i \in 1..2 : result[1].days[i].events # <<>>

====
